---------------------------- MODULE Spec2Model ----------------------------
(***************************************************************************)
(* Model of interactive/playground.py: the chainable-optimizer playground. *)
(*                                                                         *)
(* Three specifications share the module:                                  *)
(*   Spec       the pipeline editor (palette buttons, recipes, clear,      *)
(*              remove_block, the rendered remove buttons)                 *)
(*   SpecBuild  build_optimizer_from_pipeline and run_optimization_handler *)
(*              applied to bounded pipelines, kwargs and slider settings   *)
(*   SpecRun    the training loop of run_optimization over PROBLEMS        *)
(*                                                                         *)
(* Python values are written as the source writes them: a scalar v is the  *)
(* one-element tuple <<"v">> of its literal, a tuple (a, b) is <<"a","b">>.*)
(* A dict is a function from its keys.  Non-ASCII letters in names are     *)
(* spelled out (mu, beta2).                                                *)
(***************************************************************************)
EXTENDS Integers, Sequences, FiniteSets, TLC

VARIABLES
  pipeline,          \* pipeline_state: list of component ids
  pipeline_display,  \* pipeline_display: the rendered pipeline blocks
  event,             \* the UI event handled last
  call,              \* arguments of the last build / handler call
  optimizer,         \* what was passed to C.BaseOpt: fns and opt_params
  run,               \* locals of run_optimization
  conv,              \* arguments and return value of a find_convergence call
  figure             \* the trajectory traces of the figure built last

vars == <<pipeline, pipeline_display, event, call, optimizer, run, conv, figure>>

\* ------------------------------------------------------------------ bounds
MaxLen == 3        \* palette clicks are modelled while len(pipeline) < MaxLen
MaxIndex == 4      \* remove_block / remove button indices range over -1..MaxIndex

\* ------------------------------------------------------------ dict helpers
EmptyDict == [k \in {} |-> <<>>]

\* variant: {**b, **a}, the entries of a win
DictUpdateFirst(a, b) ==
  [k \in (DOMAIN a) \cup (DOMAIN b) |-> IF k \in DOMAIN a THEN a[k] ELSE b[k]]

\* {**a, **b}
DictUpdate(a, b) ==
  [k \in (DOMAIN a) \cup (DOMAIN b) |-> IF k \in DOMAIN b THEN b[k] ELSE a[k]]

\* d[key] = value
DictSet(d, key, value) ==
  [k \in (DOMAIN d) \cup {key} |-> IF k = key THEN value ELSE d[k]]

\* d.pop(key)
DictPop(d, key) == [k \in (DOMAIN d) \ {key} |-> d[k]]

\* ----------------------------------------------------------------- catalog
OPTIMIZER_BLOCKS ==
  <<
   [cat |-> "gradient", color |-> "#9c27b0", components |-> <<
      [id |-> "gradient_input", name |-> "Raw Gradient",
       func |-> "None",
       params |-> EmptyDict] >>],
   [cat |-> "momentum", color |-> "#2196f3", components |-> <<
      [id |-> "heavyball", name |-> "Heavy Ball",
       func |-> "C.heavyball_momentum",
       params |-> [beta |-> <<"0.9">>]],
      [id |-> "nesterov", name |-> "Nesterov",
       func |-> "C.nesterov_momentum",
       params |-> [beta |-> <<"0.9">>]],
      [id |-> "nesterov_ema", name |-> "Nesterov EMA",
       func |-> "C.nesterov_ema",
       params |-> [beta |-> <<"0.9">>]],
      [id |-> "basic_ema", name |-> "Basic EMA",
       func |-> "C.exp_avg",
       params |-> [betas |-> <<"0.9", "0.999">>]] >>],
   [cat |-> "scaling", color |-> "#ff5722", components |-> <<
      [id |-> "adam_scale", name |-> "Adam Scaling",
       func |-> "C.scale_by_adam",
       params |-> [betas |-> <<"0.9", "0.999">>, eps |-> <<"1e-8">>]],
      [id |-> "rmsprop_scale", name |-> "RMSprop Scaling",
       func |-> "C.scale_by_exp_avg_sq",
       params |-> [beta2 |-> <<"0.999">>, eps |-> <<"1e-8">>]],
      [id |-> "adagrad_scale", name |-> "AdaGrad Scaling",
       func |-> "C.scale_by_exp_avg_sq",
       params |-> [beta2 |-> <<"1.0">>, eps |-> <<"1e-8">>]] >>],
   [cat |-> "regularization", color |-> "#009688", components |-> <<
      [id |-> "weight_decay", name |-> "Weight Decay",
       func |-> "C.weight_decay_to_ema",
       params |-> [weight_decay_to_ema |-> <<"0.01">>, ema_beta |-> <<"0.999">>]],
      [id |-> "weight_decay_init", name |-> "Decay to Init",
       func |-> "C.weight_decay_to_init",
       params |-> [weight_decay_to_init |-> <<"0.01">>]],
      [id |-> "l1_weight_decay", name |-> "L1 Weight Decay",
       func |-> "C.l1_weight_decay_to_ema",
       params |-> [weight_decay_to_ema |-> <<"0.01">>, ema_beta |-> <<"0.999">>]] >>],
   [cat |-> "normalization", color |-> "#795548", components |-> <<
      [id |-> "grad_clip", name |-> "Gradient Clipping",
       func |-> "functools.partial(C.global_clip, clip_fn=heavyball.utils.l2_clip_)",
       params |-> [max_norm |-> <<"1.0">>]],
      [id |-> "sign", name |-> "Sign SGD",
       func |-> "C.sign",
       params |-> [graft |-> <<"True">>]],
      [id |-> "orthogonalize", name |-> "Orthogonalize",
       func |-> "C.orthogonalize_grad_to_param",
       params |-> [eps |-> <<"1e-8">>]],
      [id |-> "orthogonalize_update", name |-> "Orthogonalize Update",
       func |-> "C.orthogonalize_update",
       params |-> EmptyDict] >>],
   [cat |-> "advanced_scaling", color |-> "#ff5722", components |-> <<
      [id |-> "laprop", name |-> "Laprop",
       func |-> "C.scale_by_laprop",
       params |-> [betas |-> <<"0.9", "0.999">>, eps |-> <<"1e-8">>]],
      [id |-> "adopt", name |-> "ADOPT",
       func |-> "C.scale_by_adopt",
       params |-> [betas |-> <<"0.9", "0.9999">>, eps |-> <<"1e-12">>]] >>],
   [cat |-> "preconditioning", color |-> "#9c27b0", components |-> <<
      [id |-> "soap", name |-> "SOAP",
       func |-> "functools.partial(C.scale_by_soap, inner='adam')",
       params |-> [shampoo_beta |-> <<"0.99">>,
                      max_precond_dim |-> <<"10000">>,
                      precondition_1d |-> <<"False">>,
                      is_preconditioning |-> <<"True">>,
                      betas |-> <<"0.9",
                      "0.999">>,
                      eps |-> <<"1e-8">>]],
      [id |-> "psgd", name |-> "PSGD",
       func |-> "functools.partial(C.scale_by_psgd, cached=False)",
       params |-> [precond_lr |-> <<"0.1">>,
                      max_size_triangular |-> <<"1024">>,
                      precondition_frequency |-> <<"10">>,
                      adaptive |-> <<"False">>,
                      store_triu_as_line |-> <<"True">>,
                      q_dtype |-> <<"float32">>,
                      inverse_free |-> <<"False">>,
                      precond_init_scale |-> <<"1.0">>,
                      precond_init_scale_scale |-> <<"0.0">>,
                      precond_init_scale_power |-> <<"1.0">>,
                      min_ndim_triangular |-> <<"2">>,
                      memory_save_mode |-> <<"None">>,
                      dampening |-> <<"1.0">>,
                      is_preconditioning |-> <<"True">>,
                      betas |-> <<"0.9",
                      "0.999">>,
                      eps |-> <<"1e-8">>,
                      ortho_method |-> <<"qr">>,
                      lower_bound_beta |-> <<"0.999">>,
                      precond_update_power_iterations |-> <<"1">>]],
      [id |-> "psgd_lra", name |-> "PSGD LRA",
       func |-> "C.scale_by_psgd_lra",
       params |-> [precond_lr |-> <<"0.1">>,
                      rank |-> <<"4">>,
                      param_count |-> <<"10000">>,
                      precondition_frequency |-> <<"10">>,
                      precond_init_scale |-> <<"1.0">>,
                      precond_init_scale_scale |-> <<"0.0">>,
                      precond_init_scale_power |-> <<"1.0">>,
                      q_dtype |-> <<"float32">>,
                      is_preconditioning |-> <<"True">>,
                      eps |-> <<"1e-8">>,
                      betas |-> <<"0.9",
                      "0.999">>]],
      [id |-> "delayed_psgd", name |-> "Delayed PSGD",
       func |-> "functools.partial(C.scale_by_delayed_psgd, cached=False)",
       params |-> [precond_lr |-> <<"0.1">>,
                      max_size_triangular |-> <<"1024">>,
                      precondition_frequency |-> <<"10">>,
                      adaptive |-> <<"False">>,
                      store_triu_as_line |-> <<"True">>,
                      q_dtype |-> <<"float32">>,
                      inverse_free |-> <<"False">>,
                      precond_init_scale |-> <<"1.0">>,
                      precond_init_scale_scale |-> <<"0.0">>,
                      precond_init_scale_power |-> <<"1.0">>,
                      min_ndim_triangular |-> <<"2">>,
                      memory_save_mode |-> <<"None">>,
                      dampening |-> <<"1.0">>,
                      is_preconditioning |-> <<"True">>,
                      betas |-> <<"0.9",
                      "0.999">>,
                      eps |-> <<"1e-8">>,
                      ortho_method |-> <<"qr">>,
                      lower_bound_beta |-> <<"0.999">>,
                      precond_update_power_iterations |-> <<"1">>]],
      [id |-> "delayed_psgd_lra", name |-> "Delayed PSGD LRA",
       func |-> "C.scale_by_delayed_psgd_lra",
       params |-> [precond_lr |-> <<"0.1">>,
                      rank |-> <<"4">>,
                      param_count |-> <<"10000">>,
                      precondition_frequency |-> <<"10">>,
                      precond_init_scale |-> <<"1.0">>,
                      precond_init_scale_scale |-> <<"0.0">>,
                      precond_init_scale_power |-> <<"1.0">>,
                      q_dtype |-> <<"float32">>,
                      is_preconditioning |-> <<"True">>,
                      eps |-> <<"1e-8">>,
                      betas |-> <<"0.9",
                      "0.999">>]] >>],
   [cat |-> "adaptive_lr", color |-> "#009688", components |-> <<
      [id |-> "d_adapt", name |-> "D-Adaptation",
       func |-> "C.scale_by_d_adaptation",
       params |-> [initial_d |-> <<"1.0">>]],
      [id |-> "lr_adapt", name |-> "LR Adaptation",
       func |-> "C.scale_by_lr_adaptation",
       params |-> [initial_d |-> <<"1.0">>, lr_lr |-> <<"0.1">>]],
      [id |-> "pointwise_lr_adapt", name |-> "Pointwise LR",
       func |-> "C.scale_by_pointwise_lr_adaptation",
       params |-> [initial_d |-> <<"1.0">>, lr_lr |-> <<"0.1">>]] >>],
   [cat |-> "special", color |-> "#4caf50", components |-> <<
      [id |-> "schedule_free", name |-> "Schedule-Free",
       func |-> "C.update_by_schedule_free",
       params |-> [r |-> <<"0.0">>, weight_lr_power |-> <<"2.0">>]],
      [id |-> "msam", name |-> "MSAM",
       func |-> "C.update_by_msam",
       params |-> [sam_step_size |-> <<"0.05">>]],
      [id |-> "mup", name |-> "muP Approx",
       func |-> "C.mup_approx",
       params |-> EmptyDict],
      [id |-> "palm_beta2", name |-> "PALM beta2",
       func |-> "C.palm_beta2",
       params |-> [beta2_scale |-> <<"0.8">>]],
      [id |-> "identity", name |-> "Identity",
       func |-> "C.identity",
       params |-> EmptyDict] >>]
  >>

\* pre-built optimizer recipes
RECIPES ==
  <<
     [name |-> "SGD", ids |-> <<"gradient_input">>],
     [name |-> "SGD + Momentum", ids |-> <<"gradient_input", "heavyball">>],
     [name |-> "Adam", ids |-> <<"gradient_input", "adam_scale">>],
     [name |-> "AdamW", ids |-> <<"gradient_input", "adam_scale", "weight_decay">>],
     [name |-> "RMSprop", ids |-> <<"gradient_input", "rmsprop_scale">>],
     [name |-> "Nesterov SGD", ids |-> <<"gradient_input", "nesterov">>],
     [name |-> "SOAP", ids |-> <<"gradient_input", "soap">>],
     [name |-> "Laprop", ids |-> <<"gradient_input", "laprop">>],
     [name |-> "ADOPT", ids |-> <<"gradient_input", "adopt">>],
     [name |-> "Sign SGD", ids |-> <<"gradient_input", "sign">>],
     [name |-> "AdamW + Clipping", ids |-> <<"gradient_input", "grad_clip", "adam_scale", "weight_decay">>],
     [name |-> "D-Adapted Adam", ids |-> <<"gradient_input", "adam_scale", "d_adapt">>],
     [name |-> "PSGD", ids |-> <<"gradient_input", "psgd">>],
     [name |-> "Schedule-Free AdamW", ids |-> <<"gradient_input", "adam_scale", "weight_decay", "schedule_free">>],
     [name |-> "EMA SGD", ids |-> <<"gradient_input", "basic_ema">>],
     [name |-> "Orthogonal Adam", ids |-> <<"gradient_input", "orthogonalize_update", "adam_scale">>],
     [name |-> "PALM", ids |-> <<"gradient_input", "palm_beta2", "adam_scale">>],
     [name |-> "Delayed PSGD", ids |-> <<"gradient_input", "delayed_psgd">>],
     [name |-> "muP Adam", ids |-> <<"gradient_input", "mup", "adam_scale">>]
  >>

\* ids in catalog order, as the nested loops of get_component_info visit them
RECURSIVE FlattenBlocks(_)
FlattenBlocks(cats) ==
  IF cats = <<>> THEN <<>>
  ELSE [i \in 1..Len(cats[1].components) |->
          [comp |-> cats[1].components[i], color |-> cats[1].color]]
       \o FlattenBlocks(Tail(cats))

AllComponents == FlattenBlocks(OPTIMIZER_BLOCKS)

NoComponent == [id |-> "None", name |-> "None", func |-> "None", params |-> EmptyDict]

\* variant: the lookup compares the display name instead of the id
get_component_info_by_name(comp_id) ==
  LET hits == {i \in DOMAIN AllComponents : AllComponents[i].comp.name = comp_id}
  IN IF hits = {}
     THEN [found |-> FALSE, comp |-> NoComponent, color |-> "#757575"]
     ELSE LET first == CHOOSE i \in hits : \A j \in hits : i <= j
          IN [found |-> TRUE, comp |-> AllComponents[first].comp,
              color |-> AllComponents[first].color]

\* get_component_info(comp_id): (comp, color) of the first match, (None, "#757575") otherwise
get_component_info(comp_id) ==
  LET hits == {i \in DOMAIN AllComponents : AllComponents[i].comp.id = comp_id}
  IN IF hits = {}
     THEN [found |-> FALSE, comp |-> NoComponent, color |-> "#757575"]
     ELSE LET first == CHOOSE i \in hits : \A j \in hits : i <= j
          IN [found |-> TRUE, comp |-> AllComponents[first].comp,
              color |-> AllComponents[first].color]

\* the palette: one button per component of every category but "gradient"
PaletteIds ==
  UNION {{OPTIMIZER_BLOCKS[c].components[k].id :
             k \in DOMAIN OPTIMIZER_BLOCKS[c].components} :
         c \in {d \in DOMAIN OPTIMIZER_BLOCKS : OPTIMIZER_BLOCKS[d].cat # "gradient"}}

\* the buttons clicked in the model, one or two of every category: all buttons
\* run the same lambda and differ only in the id bound to cid
ClickedIds ==
  {"heavyball", "nesterov", "adam_scale", "adagrad_scale", "weight_decay",
   "grad_clip", "laprop", "soap", "d_adapt", "schedule_free", "identity"}

RecipeNames == {RECIPES[i].name : i \in DOMAIN RECIPES}

RecipeOf(recipe_name) ==
  RECIPES[CHOOSE i \in DOMAIN RECIPES : RECIPES[i].name = recipe_name].ids

\* recipe_dropdown: value=None until the user picks one of the choices
NoSelection == "<None>"

DropdownValues == RecipeNames \cup {NoSelection}

\* ------------------------------------------------------- pipeline display
RECURSIVE RenderBlocks(_, _)
RenderBlocks(p, i) ==
  IF i >= Len(p) THEN <<>>
  ELSE LET info == get_component_info(p[i + 1])
       IN (IF info.found
           THEN <<[name |-> info.comp.name, remove_index |-> i,
                   show_arrow |-> (i < Len(p) - 1)]>>
           ELSE <<>>)
          \o RenderBlocks(p, i + 1)

\* create_pipeline_display(pipeline): the placeholder, or one block per known id,
\* each with a remove button calling window.removePipelineBlock(i)
create_pipeline_display(p) ==
  IF p = <<>> \/ p = <<"gradient_input">>
  THEN [placeholder |-> TRUE, blocks |-> <<>>]
  ELSE [placeholder |-> FALSE, blocks |-> RenderBlocks(p, 0)]

\* --------------------------------------------------------- event handlers
\* variant: a component already in the pipeline is not added again
add_component_dedup(p, cid) ==
  IF \E i \in DOMAIN p : p[i] = cid THEN p ELSE p \o <<cid>>

add_component(p, cid) == p \o <<cid>>

load_recipe(recipe_name) ==
  IF recipe_name \in RecipeNames THEN RecipeOf(recipe_name)
  ELSE <<"gradient_input">>

clear_pipeline == <<"gradient_input">>

\* new_pipeline.pop(index), 0-based
PopAt(p, index) ==
  [k \in 1..(Len(p) - 1) |-> IF k <= index THEN p[k] ELSE p[k + 1]]

\* variant: the gradient_input block is not protected
remove_block_any(p, index) ==
  IF 0 <= index /\ index < Len(p) THEN PopAt(p, index) ELSE p

remove_block(p, index) ==
  IF 0 <= index /\ index < Len(p) /\ p[index + 1] # "gradient_input"
  THEN PopAt(p, index)
  ELSE p

\* ------------------------------------------- build_optimizer_from_pipeline
\* opt_params before **kwargs
BaseOptParams ==
  [lr |-> <<"0.001">>, step |-> <<"1">>, caution |-> <<"False">>,
   weight_decay |-> <<"0.0">>]

\* "beta" in params_to_add and "betas" not in params_to_add
HasSingleBeta(params) == "beta" \in DOMAIN params /\ "betas" \notin DOMAIN params

\* the special parameter mapping: opt_params["betas"] = (beta, second)
MapBeta(opt_params, beta) ==
  DictSet(opt_params, "betas",
          IF "betas" \in DOMAIN opt_params
          THEN <<beta[1], opt_params["betas"][2]>>
          ELSE <<beta[1], "0.999">>)

\* for key, value in params_to_add.items(): if key not in kwargs: opt_params[key] = value
AddDefaults(opt_params, params_to_add, kwargs) ==
  LET used == (DOMAIN params_to_add) \ (DOMAIN kwargs)
  IN [k \in (DOMAIN opt_params) \cup used |->
        IF k \in used THEN params_to_add[k] ELSE opt_params[k]]

\* variant: the function is put in front of the list
AddFnFirst(fns, func) == <<func>> \o fns

\* fns.append(comp_info["func"])
AddFn(fns, func) == Append(fns, func)

\* one iteration of "for comp_id in pipeline", on st = [fns, opt_params]
BuildComponent(st, comp_id, kwargs) ==
  IF comp_id = "gradient_input" THEN st
  ELSE LET info == get_component_info(comp_id)
       IN IF info.found /\ info.comp.func # "None"
          THEN LET params == info.comp.params
                   single == HasSingleBeta(params)
                   params_to_add == IF single THEN DictPop(params, "beta") ELSE params
                   mapped == IF single THEN MapBeta(st.opt_params, params["beta"])
                             ELSE st.opt_params
               IN [fns |-> AddFn(st.fns, info.comp.func),
                   opt_params |-> AddDefaults(mapped, params_to_add, kwargs)]
          ELSE st

RECURSIVE BuildLoop(_, _, _)
BuildLoop(st, p, kwargs) ==
  IF p = <<>> THEN st
  ELSE BuildLoop(BuildComponent(st, Head(p), kwargs), Tail(p), kwargs)

\* variant: without the "if not fns" default
build_optimizer_without_default(p, kwargs) ==
  LET st == BuildLoop([fns |-> <<>>, opt_params |-> DictUpdate(BaseOptParams, kwargs)],
                      p, kwargs)
  IN [built |-> TRUE, fns |-> st.fns, opt_params |-> st.opt_params]

\* the fns and the parameter dict handed to C.BaseOpt
build_optimizer_from_pipeline(p, kwargs) ==
  LET st == BuildLoop([fns |-> <<>>, opt_params |-> DictUpdate(BaseOptParams, kwargs)],
                      p, kwargs)
  IN IF st.fns = <<>>
     THEN [built |-> TRUE, fns |-> <<"C.identity">>, opt_params |-> st.opt_params]
     ELSE [built |-> TRUE, fns |-> st.fns, opt_params |-> st.opt_params]

\* 10 ** e, e given by its literal
Pow10(e) == <<"10**" \o e[1]>>

\* run_optimization: kwargs["lr"] = 10 ** kwargs.get("lr", -2)
RunKwargs(kwargs) ==
  DictSet(kwargs, "lr",
          Pow10(IF "lr" \in DOMAIN kwargs THEN kwargs["lr"] ELSE <<"-2">>))

\* run_optimization_handler: the pipeline it runs
HandlerPipeline(p) == IF p = <<>> \/ Len(p) = 1 THEN <<"gradient_input">> ELSE p

\* run_optimization_handler: the keyword arguments it passes to run_optimization
HandlerKwargs(s) ==
  [lr |-> s.lr, beta |-> s.beta, betas |-> <<s.beta[1], s.beta2[1]>>,
   beta2 |-> s.beta2, eps |-> s.eps,
   weight_decay_to_ema |-> s.weight_decay, weight_decay_to_init |-> s.weight_decay,
   ema_beta |-> s.ema_beta, max_norm |-> s.max_norm,
   shampoo_beta |-> s.shampoo_beta, precond_lr |-> s.precond_lr,
   precondition_frequency |-> s.precondition_frequency, rank |-> s.rank,
   param_count |-> s.param_count, initial_d |-> s.initial_d, lr_lr |-> s.lr_lr,
   r |-> s.r, weight_lr_power |-> s.weight_lr_power,
   sam_step_size |-> s.sam_step_size, beta2_scale |-> s.beta2_scale,
   graft |-> s.graft]

\* the sliders of create_app: lr, beta, beta2 and eps range over their minimum,
\* default and maximum, the others stay at their default value
SliderSettings ==
  [lr : {<<"-4">>, <<"-2">>, <<"-1">>},
   beta : {<<"0.0">>, <<"0.9">>, <<"0.999">>},
   beta2 : {<<"0.0">>, <<"0.999">>},
   eps : {<<"1e-8">>, <<"1e-4">>},
   weight_decay : {<<"0.01">>}, ema_beta : {<<"0.999">>}, max_norm : {<<"1.0">>},
   shampoo_beta : {<<"0.99">>}, precond_lr : {<<"0.1">>},
   precondition_frequency : {<<"10">>}, rank : {<<"4">>},
   param_count : {<<"10000">>}, initial_d : {<<"1.0">>}, lr_lr : {<<"0.1">>},
   r : {<<"0.0">>}, weight_lr_power : {<<"2.0">>}, sam_step_size : {<<"0.05">>},
   beta2_scale : {<<"0.8">>}, graft : {<<"True">>}]

\* ------------------------------------------------ inputs of SpecBuild
MaxPipe == 3       \* pipelines handed to the builder have at most MaxPipe ids

\* ids the builder is exercised with: the placeholder, a single-beta component,
\* components declaring betas / beta2 / eps, one without parameters, and an id
\* that is not in the catalog
BuildIds ==
  {"gradient_input", "heavyball", "adam_scale", "rmsprop_scale", "adagrad_scale",
   "adopt", "identity", "no_such_component"}

RECURSIVE SeqsUpTo(_, _)
SeqsUpTo(S, n) ==
  IF n = 0 THEN {<<>>}
  ELSE LET shorter == SeqsUpTo(S, n - 1)
       IN shorter \cup {Append(q, x) : q \in shorter, x \in S}

BuildPipelines == SeqsUpTo(BuildIds, MaxPipe)

\* caller-supplied values, all different from every catalog default
UserValues ==
  [betas |-> <<"0.5", "0.99">>, beta2 |-> <<"0.5">>, eps |-> <<"1e-4">>,
   lr |-> <<"0.1">>]

\* every kwargs dict over a subset of the keys of UserValues
KwargsSet == {[k \in K |-> UserValues[k]] : K \in SUBSET (DOMAIN UserValues)}

\* ---------------------------------------------------------------- problems
\* nn.Linear(in_features, out_features): weight and bias elements
LinearNumel(in_features, out_features) == in_features * out_features + out_features

\* MLPProblem.__init__: sum(p.numel() for p in self.model.parameters()) of
\* Sequential(Linear(1, h), ReLU, Linear(h, h), ReLU, Linear(h, 1))
MLPNumel(hidden_size) ==
  LinearNumel(1, hidden_size) + LinearNumel(hidden_size, hidden_size)
    + LinearNumel(hidden_size, 1)

\* PROBLEMS, in source order; label_dim is the n of the "(nD)" in the key
PROBLEMS ==
  <<[name |-> "Simple Bowl (2D)", label_dim |-> 2, cls |-> "Function2D",
     init |-> <<"-1.0", "0.0">>],
    [name |-> "Ravine (2D)", label_dim |-> 2, cls |-> "Function2D",
     init |-> <<"-1.0", "1.0">>],
    [name |-> "Rosenbrock (2D)", label_dim |-> 2, cls |-> "Function2D",
     init |-> <<"-1.0", "1.0">>],
    [name |-> "Himmelblau (2D)", label_dim |-> 2, cls |-> "Function2D",
     init |-> <<"0.0", "0.0">>],
    [name |-> "Beale (2D)", label_dim |-> 2, cls |-> "Function2D",
     init |-> <<"1.0", "1.0">>],
    [name |-> "MLP abs(x) (13D)", label_dim |-> 13, cls |-> "AbsMLP", hidden_size |-> 4],
    [name |-> "MLP sin(x) (13D)", label_dim |-> 13, cls |-> "SineMLP", hidden_size |-> 4],
    [name |-> "MLP exp(x) (13D)", label_dim |-> 13, cls |-> "ExpMLP", hidden_size |-> 4],
    [name |-> "Quadratic Bowl (10D)", label_dim |-> 10, cls |-> "QuadraticBowl", dim |-> 10],
    [name |-> "Styblinski-Tang (4D)", label_dim |-> 4, cls |-> "StyblinskiTang", dim |-> 4],
    [name |-> "Styblinski-Tang (8D)", label_dim |-> 8, cls |-> "StyblinskiTang", dim |-> 8]>>

ProblemNames == {PROBLEMS[i].name : i \in DOMAIN PROBLEMS}

ProblemOf(problem_name) ==
  PROBLEMS[CHOOSE i \in DOMAIN PROBLEMS : PROBLEMS[i].name = problem_name]

MLPClasses == {"AbsMLP", "SineMLP", "ExpMLP"}

\* the dim property of each Problem subclass
ProblemDim(problem) ==
  IF problem.cls = "Function2D" THEN 2
  ELSE IF problem.cls \in MLPClasses THEN MLPNumel(problem.hidden_size)
  ELSE problem.dim

\* len(problem.init()): np.array(self._init), the flattened model parameters,
\* or a random vector of self._dim entries
InitLen(problem) ==
  IF problem.cls = "Function2D" THEN Len(problem.init)
  ELSE IF problem.cls \in MLPClasses THEN MLPNumel(problem.hidden_size)
  ELSE problem.dim

\* ---------------------------------------------------------- run_optimization
MaxSteps == 3      \* steps ranges over 0..MaxSteps

\* loss.item(), counted in units of the convergence threshold (1e-6)
LossValues == {0, 2}

\* how often optimizer.step(closure) evaluates the closure (set by the library)
ClosureCalls == {1, 2}

Abs(n) == IF n < 0 THEN -n ELSE n

\* threshold=1e-6, one unit of the loss values
DefaultThreshold == 1

\* variant: a difference equal to the threshold counts as converged
ConvergedOrEqual(a, b, threshold) == Abs(a - b) <= threshold

\* abs(losses[i] - losses[i - 5]) < threshold
Converged(a, b, threshold) == Abs(a - b) < threshold

\* for i in range(i, len(losses)): ... return i; return len(losses)
RECURSIVE ConvergenceLoop(_, _, _)
ConvergenceLoop(losses, threshold, i) ==
  IF i >= Len(losses) THEN Len(losses)
  ELSE IF Converged(losses[i + 1], losses[i - 5 + 1], threshold) THEN i
  ELSE ConvergenceLoop(losses, threshold, i + 1)

\* find_convergence(losses, threshold)
find_convergence(losses, threshold) ==
  IF Len(losses) < 10 THEN Len(losses)
  ELSE ConvergenceLoop(losses, threshold, 10)

\* the locals of run_optimization before "for i in range(steps)"
run_optimization(problem_name, steps, closure_calls) ==
  [pc |-> "loop", problem_name |-> problem_name, steps |-> steps, i |-> 0,
   x |-> 0, x_len |-> InitLen(ProblemOf(problem_name)), grad |-> "None",
   trajectory |-> <<>>, losses |-> <<>>, gradients |-> <<>>,
   closure_calls |-> closure_calls, calls_left |-> 0, loss |-> 0]

\* trajectory.append(x.detach().numpy().copy())
loop_head(r) ==
  IF r.i < r.steps
  THEN [r EXCEPT !.trajectory = Append(@, r.x), !.pc = "step",
                 !.calls_left = r.closure_calls]
  ELSE [r EXCEPT !.pc = "return"]

\* variant: the gradient is recorded when x.grad is None
closure_inverted(r, loss) ==
  LET backward == [r EXCEPT !.grad = "set"]
  IN [backward EXCEPT
        !.gradients = IF backward.grad = "None" THEN Append(@, r.x) ELSE @,
        !.loss = loss,
        !.calls_left = @ - 1]

\* closure(): zero_grad, loss, backward, record x.grad when it is not None
closure(r, loss) ==
  LET backward == [r EXCEPT !.grad = "set"]
  IN [backward EXCEPT
        !.gradients = IF backward.grad # "None" THEN Append(@, r.x) ELSE @,
        !.loss = loss,
        !.calls_left = @ - 1]

\* optimizer.step returns: x is updated, optimizer.zero_grad(), losses.append(loss.item())
step_return(r) ==
  [r EXCEPT !.x = @ + 1, !.grad = "None", !.losses = Append(@, r.loss),
            !.i = @ + 1, !.pc = "loop"]

\* variant: final_loss is the first loss
return_metrics_first(r) ==
  IF r.losses = <<>> THEN [r EXCEPT !.pc = "IndexError"]
  ELSE [r EXCEPT !.pc = "done"] @@
       [final_loss |-> r.losses[1],
        steps_to_converge |-> find_convergence(r.losses, DefaultThreshold)]

\* the returned metrics; losses[-1] raises IndexError on an empty list
return_metrics(r) ==
  IF r.losses = <<>> THEN [r EXCEPT !.pc = "IndexError"]
  ELSE [r EXCEPT !.pc = "done"] @@
       [final_loss |-> r.losses[Len(r.losses)],
        steps_to_converge |-> find_convergence(r.losses, DefaultThreshold)]

\* ---------------------------------------------------------- the editor
NoEvent == [op |-> "none", id |-> "", index |-> -1]

\* the state the other specifications leave untouched
IdleCall == [kind |-> "none"]
IdleOptimizer == [built |-> FALSE]
IdleRun == [pc |-> "idle"]
IdleConv == [called |-> FALSE]
IdleFigure == [drawn |-> FALSE]

InitUI ==
  /\ pipeline = <<"gradient_input">>
  /\ pipeline_display = create_pipeline_display(<<"gradient_input">>)
  /\ event = NoEvent

Init ==
  /\ InitUI
  /\ call = IdleCall
  /\ optimizer = IdleOptimizer
  /\ run = IdleRun
  /\ conv = IdleConv
  /\ figure = IdleFigure

\* pipeline_state.change -> update_display
SetPipeline(p) ==
  /\ pipeline' = p
  /\ pipeline_display' = create_pipeline_display(p)

\* palette button click: lambda p, cid=comp["id"]: p + [cid]
AddComponent(cid) ==
  /\ Len(pipeline) < MaxLen
  /\ SetPipeline(add_component(pipeline, cid))
  /\ event' = [op |-> "add", id |-> cid, index |-> -1]
  /\ UNCHANGED <<conv, figure, call, optimizer, run>>

\* variant: the recipe's components are added behind the current pipeline
LoadRecipeExtend(recipe_name) ==
  /\ SetPipeline(pipeline \o Tail(load_recipe(recipe_name)))
  /\ event' = [op |-> "load", id |-> recipe_name, index |-> -1]
  /\ UNCHANGED <<conv, figure, call, optimizer, run>>

\* load_recipe_btn.click
LoadRecipe(recipe_name) ==
  /\ SetPipeline(load_recipe(recipe_name))
  /\ event' = [op |-> "load", id |-> recipe_name, index |-> -1]
  /\ UNCHANGED <<conv, figure, call, optimizer, run>>

\* clear_pipeline_btn.click
ClearPipeline ==
  /\ SetPipeline(clear_pipeline)
  /\ event' = [op |-> "clear", id |-> "", index |-> -1]
  /\ UNCHANGED <<conv, figure, call, optimizer, run>>

\* remove_block(pipeline, index) applied to the pipeline state; create_app
\* connects it to no event, the action stands for a direct call
RemoveBlock(index) ==
  /\ SetPipeline(remove_block(pipeline, index))
  /\ event' = [op |-> "remove", id |-> "", index |-> index]
  /\ UNCHANGED <<conv, figure, call, optimizer, run>>

\* refresh_btn.click -> update_display
RefreshDisplay ==
  /\ pipeline_display' = create_pipeline_display(pipeline)
  /\ event' = [op |-> "refresh", id |-> "", index |-> -1]
  /\ UNCHANGED <<conv, figure, pipeline, call, optimizer, run>>

\* the x button of a rendered block: window.removePipelineBlock(index), whose
\* body is console.log('Remove block at index:', index) and nothing else
JsRemovePipelineBlock(index) ==
  /\ \E b \in DOMAIN pipeline_display.blocks :
        pipeline_display.blocks[b].remove_index = index
  /\ event' = [op |-> "js_remove", id |-> "", index |-> index]
  /\ UNCHANGED <<conv, figure, pipeline, pipeline_display, call, optimizer, run>>

Next ==
  \/ \E cid \in ClickedIds \cap PaletteIds : AddComponent(cid)
  \/ \E r \in DropdownValues : LoadRecipe(r)
  \/ ClearPipeline
  \/ \E index \in -1..MaxIndex : RemoveBlock(index)
  \/ RefreshDisplay
  \/ \E index \in 0..MaxIndex : JsRemovePipelineBlock(index)

Spec == Init /\ [][Next]_vars

\* ----------------------------------------------------------- SpecBuild
InitBuild ==
  /\ pipeline \in BuildPipelines
  /\ pipeline_display = create_pipeline_display(pipeline)
  /\ event = NoEvent
  /\ call = IdleCall
  /\ optimizer = IdleOptimizer
  /\ run = IdleRun
  /\ conv = IdleConv
  /\ figure = IdleFigure

\* build_optimizer_from_pipeline(pipeline, params, kwargs)
CallBuild(kwargs) ==
  /\ call = IdleCall
  /\ call' = [kind |-> "build", pipeline |-> pipeline, kwargs |-> kwargs]
  /\ optimizer' = build_optimizer_from_pipeline(pipeline, kwargs)
  /\ UNCHANGED <<conv, figure, pipeline, pipeline_display, event, run>>

\* run_btn.click: run_optimization_handler -> run_optimization ->
\* build_optimizer_from_pipeline (the loop that follows is SpecRun's)
RunOptimizationHandler(s) ==
  LET p == HandlerPipeline(pipeline)
      kwargs == RunKwargs(HandlerKwargs(s))
  IN /\ call = IdleCall
     /\ call' = [kind |-> "handler", pipeline |-> p, kwargs |-> kwargs, sliders |-> s]
     /\ optimizer' = build_optimizer_from_pipeline(p, kwargs)
     /\ UNCHANGED <<conv, figure, pipeline, pipeline_display, event, run>>

NextBuild ==
  \/ \E kwargs \in KwargsSet : CallBuild(kwargs)
  \/ \E s \in SliderSettings : RunOptimizationHandler(s)

SpecBuild == InitBuild /\ [][NextBuild]_vars

\* ------------------------------------------------------------- SpecRun
\* the pipelines the loop is run with
RunPipelines == {load_recipe("SGD"), load_recipe("Adam")}

\* the keyword arguments of the run_optimization calls: none, or an lr exponent
RunCallKwargs == {EmptyDict, [lr |-> <<"-3">>]}

InitRun ==
  /\ pipeline \in RunPipelines
  /\ pipeline_display = create_pipeline_display(pipeline)
  /\ event = NoEvent
  /\ call = IdleCall
  /\ optimizer = IdleOptimizer
  /\ run = IdleRun
  /\ conv = IdleConv
  /\ figure = IdleFigure

\* run_optimization(problem_name, pipeline, steps, **kwargs) up to the loop
StartRun(problem_name, steps, kwargs, closure_calls) ==
  /\ run.pc = "idle"
  /\ call' = [kind |-> "run", pipeline |-> pipeline, given |-> kwargs,
              kwargs |-> RunKwargs(kwargs)]
  /\ optimizer' = build_optimizer_from_pipeline(pipeline, RunKwargs(kwargs))
  /\ run' = run_optimization(problem_name, steps, closure_calls)
  /\ UNCHANGED <<conv, figure, pipeline, pipeline_display, event>>

LoopHead ==
  /\ run.pc = "loop"
  /\ run' = loop_head(run)
  /\ UNCHANGED <<conv, figure, pipeline, pipeline_display, event, call, optimizer>>

Closure(loss) ==
  /\ run.pc = "step" /\ run.calls_left > 0
  /\ run' = closure(run, loss)
  /\ UNCHANGED <<conv, figure, pipeline, pipeline_display, event, call, optimizer>>

StepReturn ==
  /\ run.pc = "step" /\ run.calls_left = 0
  /\ run' = step_return(run)
  /\ UNCHANGED <<conv, figure, pipeline, pipeline_display, event, call, optimizer>>

Return ==
  /\ run.pc = "return"
  /\ run' = return_metrics(run)
  /\ UNCHANGED <<conv, figure, pipeline, pipeline_display, event, call, optimizer>>

NextRun ==
  \/ \E problem_name \in ProblemNames, steps \in 0..MaxSteps,
        kwargs \in RunCallKwargs, closure_calls \in ClosureCalls :
          StartRun(problem_name, steps, kwargs, closure_calls)
  \/ LoopHead
  \/ \E loss \in LossValues : Closure(loss)
  \/ StepReturn
  \/ Return

SpecRun == InitRun /\ [][NextRun]_vars

\* ------------------------------------------------------------- SpecConv
MaxLosses == 12    \* loss lists have at most MaxLosses entries

\* the loss lists find_convergence is applied to
LossLists == SeqsUpTo(LossValues, MaxLosses)

\* thresholds, in the unit of the loss values: the default and two larger ones
Thresholds == {DefaultThreshold, 2, 3}

\* the locals of run_optimization when "for i in range(steps)" is left after
\* steps iterations with one closure evaluation each
LoopExit(losses) ==
  LET n == Len(losses)
  IN [pc |-> "return", problem_name |-> "Rosenbrock (2D)", steps |-> n, i |-> n,
      x |-> n, x_len |-> InitLen(ProblemOf("Rosenbrock (2D)")), grad |-> "None",
      trajectory |-> [k \in 1..n |-> k - 1], losses |-> losses,
      gradients |-> [k \in 1..n |-> k - 1],
      closure_calls |-> 1, calls_left |-> 0,
      loss |-> IF n = 0 THEN 0 ELSE losses[n]]

InitConv ==
  /\ pipeline = load_recipe("Adam")
  /\ pipeline_display = create_pipeline_display(pipeline)
  /\ event = NoEvent
  /\ call = IdleCall
  /\ optimizer = IdleOptimizer
  /\ conv \in [called : {FALSE}, losses : LossLists, threshold : Thresholds]
  /\ run = LoopExit(conv.losses)
  /\ figure = IdleFigure

\* find_convergence(losses, threshold)
CallFindConvergence ==
  /\ ~conv.called
  /\ conv' = [called |-> TRUE, losses |-> conv.losses, threshold |-> conv.threshold,
              result |-> find_convergence(conv.losses, conv.threshold)]
  /\ UNCHANGED <<pipeline, pipeline_display, event, call, optimizer, run, figure>>

NextConv ==
  \/ CallFindConvergence
  \/ Return

SpecConv == InitConv /\ [][NextConv]_vars

\* -------------------------------------------------------------- SpecViz
MaxPoints == 3     \* plotted trajectories have at most MaxPoints points

\* coordinates of the plotted points
Coords == {0, 1}

\* the points handed to the plot: the trajectory itself for a 2-D problem,
\* pca.fit_transform(trajectory_array) for the others
PlottedTrajectories == SeqsUpTo(Coords \X Coords, MaxPoints)

\* create_2d_visualization: one "lines" trace per i in range(1, len(trajectory))
Segments2D(trajectory) ==
  [i \in 1..(Len(trajectory) - 1) |->
     [x |-> <<trajectory[i][1], trajectory[i + 1][1]>>,
      y |-> <<trajectory[i][2], trajectory[i + 1][2]>>]]

\* create_highdim_visualization: nothing unless len(trajectory) > 2, then one
\* "lines" trace per i in range(1, len(trajectory_2d)) with
\* y=[trajectory_2d[i - 1, 1] if trajectory_2d.shape[1] > 1 else [0, 0]]
SegmentsHighDim(trajectory_2d, n_components) ==
  IF Len(trajectory_2d) > 2
  THEN [i \in 1..(Len(trajectory_2d) - 1) |->
          [x |-> <<trajectory_2d[i][1], trajectory_2d[i + 1][1]>>,
           y |-> <<IF n_components > 1 THEN trajectory_2d[i][2] ELSE <<0, 0>>>>]]
  ELSE <<>>

\* PCA(n_components=min(2, trajectory_array.shape[1]))
PcaComponents(problem) == IF InitLen(problem) < 2 THEN InitLen(problem) ELSE 2

\* create_visualization: the 2-D plot when problem.dim == 2, the PCA plot otherwise
create_visualization(problem_name, points) ==
  LET problem == ProblemOf(problem_name)
  IN IF ProblemDim(problem) = 2
     THEN [drawn |-> TRUE, kind |-> "2d", problem_name |-> problem_name,
           points |-> points, segments |-> Segments2D(points)]
     ELSE [drawn |-> TRUE, kind |-> "highdim", problem_name |-> problem_name,
           points |-> points,
           segments |-> SegmentsHighDim(points, PcaComponents(problem))]

InitViz ==
  /\ pipeline = load_recipe("Adam")
  /\ pipeline_display = create_pipeline_display(pipeline)
  /\ event = NoEvent
  /\ call = IdleCall
  /\ optimizer = IdleOptimizer
  /\ run = IdleRun
  /\ conv = IdleConv
  /\ figure \in [drawn : {FALSE}, points : PlottedTrajectories]

\* create_visualization(problem_name, trajectory, losses, gradients, pipeline)
CreateVisualization(problem_name) ==
  /\ ~figure.drawn
  /\ figure' = create_visualization(problem_name, figure.points)
  /\ UNCHANGED <<pipeline, pipeline_display, event, call, optimizer, run, conv>>

NextViz == \E problem_name \in ProblemNames : CreateVisualization(problem_name)

SpecViz == InitViz /\ [][NextViz]_vars

\* ======================================================================
\* Properties
\* ======================================================================

\* C1: in every state of the editor, reached by any sequence of palette
\* clicks, recipe loads (any dropdown value, no selection included), clears
\* and remove_block calls with any index, the pipeline is non-empty and its
\* first element is "gradient_input".
C1_StartsWithGradientInput ==
  /\ pipeline # <<>>
  /\ pipeline[1] = "gradient_input"

\* remove_block was called on index 0 of a pipeline with components behind it
C1_Witness ==
  /\ event.op = "remove" /\ event.index = 0
  /\ Len(pipeline) >= 3
  /\ pipeline[1] = "gradient_input"

\* the catalog 'func' of every id of p but "gradient_input", in pipeline order
RECURSIVE CatalogFuncs(_)
CatalogFuncs(p) ==
  IF p = <<>> THEN <<>>
  ELSE (IF Head(p) = "gradient_input" THEN <<>>
        ELSE <<get_component_info(Head(p)).comp.func>>)
       \o CatalogFuncs(Tail(p))

\* ids of p that are in the catalog with a func
Contributes(comp_id) ==
  \E i \in DOMAIN AllComponents :
     AllComponents[i].comp.id = comp_id /\ AllComponents[i].comp.func # "None"

ContributedFuncs(p) ==
  LET kept == SelectSeq(p, Contributes)
  IN [i \in 1..Len(kept) |-> get_component_info(kept[i]).comp.func]

\* C2 as stated: the fns passed to C.BaseOpt are exactly the catalog funcs of
\* the pipeline's ids, in order, after dropping "gradient_input".
C2_FnsAreCatalogFuncs ==
  optimizer.built => optimizer.fns = CatalogFuncs(call.pipeline)

\* C2 amended: the fns passed to C.BaseOpt are the catalog funcs of the
\* pipeline's ids in pipeline order, duplicates preserved, after dropping
\* "gradient_input" and ids that are not in the catalog; when that sequence is
\* empty, the fns passed are [C.identity].
C2_FnsInPipelineOrder ==
  optimizer.built =>
    optimizer.fns = (IF ContributedFuncs(call.pipeline) = <<>>
                     THEN <<"C.identity">>
                     ELSE ContributedFuncs(call.pipeline))

\* three transforms were passed, a repeated one around a different one
C2_Witness ==
  /\ optimizer.built
  /\ Len(call.pipeline) = 3
  /\ optimizer.fns = <<"C.heavyball_momentum", "C.scale_by_adam", "C.heavyball_momentum">>

\* C3: every key of kwargs has, in the parameter dict passed to C.BaseOpt,
\* exactly the value the caller supplied; catalog defaults never replace it.
C3_KwargsKept ==
  optimizer.built =>
    \A k \in DOMAIN call.kwargs : optimizer.opt_params[k] = call.kwargs[k]

\* C4: a pipeline with adagrad_scale (and no other component declaring beta2)
\* run through run_optimization_handler is built with beta2 = 1.0, for every
\* slider setting.
C4_AdagradBeta2IsOne ==
  ( /\ call.kind = "handler"
    /\ \E i \in DOMAIN call.pipeline : call.pipeline[i] = "adagrad_scale"
    /\ \A i \in DOMAIN call.pipeline : call.pipeline[i] # "rmsprop_scale" )
  => optimizer.opt_params["beta2"] = <<"1.0">>

\* C5: activating the remove button of the block at index i removes that block
\* from the pipeline state, for every block other than gradient_input.
C5_RemoveButtonRemoves ==
  [][ ( /\ event'.op = "js_remove"
        /\ event'.index < Len(pipeline)
        /\ pipeline[event'.index + 1] # "gradient_input" )
      => pipeline' = PopAt(pipeline, event'.index) ]_vars

\* C6: for every problem run, the length of the vector returned by init() and
\* the dim property both equal the n of the "(nD)" label of its name.
C6_DimMatchesLabel ==
  run.pc # "idle" =>
    /\ run.x_len = ProblemOf(run.problem_name).label_dim
    /\ ProblemDim(ProblemOf(run.problem_name)) = ProblemOf(run.problem_name).label_dim

\* C7: a run of steps >= 1 in which the optimizer evaluates the closure once
\* per step returns a trajectory of exactly steps points, exactly steps losses
\* and exactly steps recorded gradients.
C7_OnePointPerStep ==
  (run.pc = "done" /\ run.steps >= 1 /\ run.closure_calls = 1) =>
    /\ Len(run.trajectory) = run.steps
    /\ Len(run.losses) = run.steps
    /\ Len(run.gradients) = run.steps

\* a finished run of several steps with one closure evaluation per step
C7_Witness ==
  /\ run.pc = "done" /\ run.steps = MaxSteps /\ run.closure_calls = 1
  /\ Len(run.trajectory) = MaxSteps

\* C8: a palette click with id c turns pipeline p into p followed by c: p is
\* kept as a prefix, the length grows by one, and nothing is deduplicated.
C8_ClickAppends ==
  [][ event'.op = "add" =>
        /\ Len(pipeline') = Len(pipeline) + 1
        /\ SubSeq(pipeline', 1, Len(pipeline)) = pipeline
        /\ pipeline'[Len(pipeline')] = event'.id ]_vars

\* the component just clicked was already the last one of the pipeline
C8_Witness ==
  /\ event.op = "add"
  /\ Len(pipeline) = 3
  /\ pipeline[2] = event.id /\ pipeline[3] = event.id

\* C9: loading a recipe whose name is a key of RECIPES replaces the pipeline
\* by exactly that recipe's list of ids, whatever the pipeline was before.
C9_LoadReplaces ==
  [][ (event'.op = "load" /\ event'.id \in RecipeNames) =>
        \E i \in DOMAIN RECIPES :
           RECIPES[i].name = event'.id /\ pipeline' = RECIPES[i].ids ]_vars

\* a four-id recipe is the pipeline right after it was loaded
C9_Witness ==
  /\ event.op = "load" /\ event.id = "AdamW + Clipping"
  /\ pipeline = <<"gradient_input", "grad_clip", "adam_scale", "weight_decay">>

\* the names on the rendered blocks, in order
BlockNames(display) == [i \in DOMAIN display.blocks |-> display.blocks[i].name]

\* C10: the example combinations agree with the presets and the catalog:
\* loading "Adam", "AdamW" or "SGD + Momentum" gives [gradient_input,
\* adam_scale], [gradient_input, adam_scale, weight_decay] and
\* [gradient_input, heavyball], shown as the blocks named Adam Scaling,
\* Weight Decay and Heavy Ball behind the raw gradient.
C10_ExamplesAgree ==
  /\ (event.op = "load" /\ event.id = "Adam") =>
        /\ pipeline = <<"gradient_input", "adam_scale">>
        /\ BlockNames(pipeline_display) = <<"Raw Gradient", "Adam Scaling">>
  /\ (event.op = "load" /\ event.id = "AdamW") =>
        /\ pipeline = <<"gradient_input", "adam_scale", "weight_decay">>
        /\ BlockNames(pipeline_display)
             = <<"Raw Gradient", "Adam Scaling", "Weight Decay">>
  /\ (event.op = "load" /\ event.id = "SGD + Momentum") =>
        /\ pipeline = <<"gradient_input", "heavyball">>
        /\ BlockNames(pipeline_display) = <<"Raw Gradient", "Heavy Ball">>

\* the AdamW preset was loaded and is displayed
C10_Witness ==
  /\ event.op = "load" /\ event.id = "AdamW"
  /\ Len(pipeline_display.blocks) = 3


\* C11: every optimizer built through run_optimization has lr = 10^e, e being
\* the exponent given as the lr keyword, or -2 when none is given; the 0.001
\* fallback of build_optimizer_from_pipeline is never the lr of a run.
C11_LrIsPowerOfTen ==
  call.kind = "run" =>
    /\ optimizer.opt_params["lr"]
         = <<"10**" \o (IF "lr" \in DOMAIN call.given THEN call.given["lr"][1]
                         ELSE "-2")>>
    /\ optimizer.opt_params["lr"] # <<"0.001">>

\* a run started without an lr keyword, with a component in the pipeline
C11_Witness ==
  /\ call.kind = "run"
  /\ "lr" \notin DOMAIN call.given
  /\ Len(call.pipeline) = 2
  /\ optimizer.opt_params["lr"] = <<"10**-2">>

\* C12: find_convergence(losses, threshold) returns the smallest index i with
\* 10 <= i < len(losses) and |losses[i] - losses[i-5]| < threshold, and
\* len(losses) when there is no such index or len(losses) < 10.
C12_SmallestConvergedIndex ==
  conv.called =>
    LET l == conv.losses
        hits == {i \in 10..(Len(l) - 1) :
                   /\ l[i + 1] - l[i - 4] < conv.threshold
                   /\ l[i - 4] - l[i + 1] < conv.threshold}
    IN IF Len(l) < 10 \/ hits = {}
       THEN conv.result = Len(l)
       ELSE conv.result \in hits /\ \A j \in hits : conv.result <= j

\* index 10 has not converged, index 11 has
C12_Witness ==
  /\ conv.called
  /\ Len(conv.losses) = 12
  /\ conv.result = 11

\* C14: a run with steps >= 1 reports the last element of losses as
\* final_loss and min(10, steps) <= steps_to_converge <= steps; a run with
\* steps = 0 returns no result, it fails with an error.
C14_MetricsOfRun ==
  run.pc \in {"done", "IndexError"} =>
    IF run.steps >= 1
    THEN /\ run.pc = "done"
         /\ run.final_loss = run.losses[Len(run.losses)]
         /\ (IF run.steps < 10 THEN run.steps ELSE 10) <= run.steps_to_converge
         /\ run.steps_to_converge <= run.steps
    ELSE run.pc = "IndexError"

\* a run of twelve steps that converged at step 10, first and last loss differ
C14_Witness ==
  /\ run.pc = "done"
  /\ run.steps = 12
  /\ run.steps_to_converge = 10
  /\ run.losses[1] # run.final_loss

\* the id is in the catalog
InCatalog(comp_id) == \E i \in DOMAIN AllComponents : AllComponents[i].comp.id = comp_id

\* the optimizer built from the call's pipeline without the ids that are not
\* in the catalog
BuiltWithoutUnknownIds ==
  build_optimizer_from_pipeline(SelectSeq(call.pipeline, InCatalog), call.kwargs)

\* C13 as stated: fns = [C.identity] is passed exactly when the pipeline
\* contributes no transform function (every id is "gradient_input", absent
\* from the catalog or without func; the empty pipeline included), and an id
\* absent from the catalog is skipped without changing the parameter dict.
C13_IdentityIffNoTransform ==
  optimizer.built =>
    /\ (optimizer.fns = <<"C.identity">>)
         <=> (\A i \in DOMAIN call.pipeline : ~Contributes(call.pipeline[i]))
    /\ optimizer.opt_params = BuiltWithoutUnknownIds.opt_params

\* C13 amended: fns = [C.identity] is passed when the pipeline contributes no
\* transform function, and otherwise only when the one function the pipeline
\* contributes is that of the identity component; an id absent from the
\* catalog is skipped without changing the fns or the parameter dict.
C13_IdentityDefault ==
  optimizer.built =>
    /\ (optimizer.fns = <<"C.identity">>)
         <=> \/ \A i \in DOMAIN call.pipeline : ~Contributes(call.pipeline[i])
             \/ /\ Len(SelectSeq(call.pipeline, Contributes)) = 1
                /\ \E i \in DOMAIN call.pipeline : call.pipeline[i] = "identity"
    /\ optimizer.opt_params = BuiltWithoutUnknownIds.opt_params
    /\ optimizer.fns = BuiltWithoutUnknownIds.fns

\* a pipeline of placeholders and unknown ids only was built with the default
C13_Witness ==
  /\ optimizer.built
  /\ Len(call.pipeline) = 3
  /\ call.pipeline[1] = "gradient_input"
  /\ call.pipeline[2] = "no_such_component"
  /\ optimizer.fns = <<"C.identity">>

\* C15: in the PCA visualization, as in the 2-D one, every trajectory segment
\* i is a line between the consecutive points i-1 and i: two x coordinates and
\* two y coordinates, taken from the same two plotted points.
C15_SegmentsJoinConsecutivePoints ==
  figure.drawn =>
    \A i \in DOMAIN figure.segments :
       /\ Len(figure.segments[i].x) = 2
       /\ Len(figure.segments[i].y) = 2
       /\ figure.segments[i].x = <<figure.points[i][1], figure.points[i + 1][1]>>
       /\ figure.segments[i].y = <<figure.points[i][2], figure.points[i + 1][2]>>

=============================================================================
